---- MODULE Spec2Model ----
(***************************************************************************)
(* The Little Man Computer of techrabbit58/madnick: the execution engine   *)
(* (src/lmc/vm.py, class LMC with its input/output adapters) and the       *)
(* assembler's tree walk (src/lmc/assembler.py, Assembler.start).          *)
(*                                                                         *)
(* Python exceptions are modelled as values: an operation that raises      *)
(* leaves the name of the exception in the field exc and the object in the *)
(* state it had when the exception left the method.                        *)
(***************************************************************************)
EXTENDS Integers, Sequences, FiniteSets, TLC

\* ------------------------------------------------------------- constants
MEMSIZE == 100
BASE == 1000

\* ---------------------------------------------------------------- bounds
\* Most cards an IntWriter holds before the model stops stepping into OUT.
MaxOutput == 1
\* Most single_step cycles one call of run may take in the model.
MaxRunSteps == 12
\* Calls of fetch, decode, execute and write made on their own.
MaxDirectCalls == 3

\* ------------------------------------------------------- python helpers
\* The value None of an Optional[str] / the absence of an exception.
None == "None"

\* list.__getitem__ / __setitem__ index of a list of length n: negative
\* indices count from the end; anything else raises IndexError.
PyIndexOk(i, n) == i >= -n /\ i < n
PyIndex(i, n) == IF i < 0 THEN n + i ELSE i

\* ------------------------------------------------ tens complement (vm.py)
tens_complement(value) == IF value < 0 THEN BASE + value ELSE value

\* to_signed with the comparison value > base // 2.
to_signed_above_half(value) ==
    IF value > BASE \div 2 THEN (-1) * (BASE - value) ELSE 1 * value

to_signed(value) ==
    IF value >= BASE \div 2 THEN (-1) * (BASE - value) ELSE 1 * value

\* ---------------------------------------------------- disassemble (vm.py)
\* The string disassemble returns, as its first word and the numbers that
\* follow it: "ADD 5" is Text("ADD", <<5>>), "undefined (4, 0)" is
\* Text("undefined", <<4, 0>>). The case None of the source matches no
\* pair (op, addr) and is left out.
Text(mnemonic, operand) == [mnemonic |-> mnemonic, operand |-> operand]

disassemble(op, addr) ==
    CASE op = 0 -> Text("HLT", <<>>)
      [] op = 1 -> Text("ADD", <<addr>>)
      [] op = 2 -> Text("SUB", <<addr>>)
      [] op = 3 -> Text("STA", <<addr>>)
      [] op = 5 -> Text("LDA", <<addr>>)
      [] op = 6 -> Text("BRZ", <<addr>>)
      [] op = 7 -> Text("BRP", <<addr>>)
      [] op = 8 -> Text("BRA", <<addr>>)
      [] op = 9 /\ addr = 1 -> Text("INP", <<>>)
      [] op = 9 /\ addr = 2 -> Text("OUT", <<>>)
      [] OTHER -> Text("undefined", <<op, addr>>)

\* ------------------------------------------------------------- adapters
\* An input adapter that was never installed (LMC.__init__ sets none).
NoInput == [installed |-> FALSE, cards |-> <<>>]
\* int_reader(cards): the closure over iter(cards).
int_reader(cards) == [installed |-> TRUE, cards |-> cards]
\* int_provider(): the next card, tens-complemented, or None at the end.
int_provider_value(rd) ==
    IF rd.cards = <<>> THEN [eof |-> TRUE, n |-> 0]
    ELSE [eof |-> FALSE, n |-> tens_complement(Head(rd.cards))]
\* An int_provider whose iterator never advances.
int_provider_rest_repeating(rd) == rd

int_provider_rest(rd) ==
    IF rd.cards = <<>> THEN rd ELSE [rd EXCEPT !.cards = Tail(rd.cards)]

NoOutput == [installed |-> FALSE, signed |-> FALSE, cards |-> <<>>]
\* An IntWriter that drops its keyword argument signed.
IntWriter_ignoring_signed(signed) ==
    [installed |-> TRUE, signed |-> FALSE, cards |-> <<>>]

\* IntWriter(signed=signed), bound method write installed by set_output.
IntWriter(signed) == [installed |-> TRUE, signed |-> signed, cards |-> <<>>]
\* IntWriter.reset(): self._cards.clear()
IntWriter_reset(w) == [w EXCEPT !.cards = <<>>]

IntWriter_write(w, value) ==
    [w EXCEPT !.cards = Append(w.cards, IF w.signed THEN to_signed(value) ELSE value)]

\* ------------------------------------------------------------ the engine
\* The machine as a record m; the operators below are the methods of LMC.
\* _set_flags with the comparison acc <= base // 2.
_set_flags_inclusive(m) ==
    [m EXCEPT !.is_zero = (m.acc = 0),
              !.is_nonnegative = (m.acc <= BASE \div 2)]

_set_flags(m) ==
    [m EXCEPT !.is_zero = (m.acc = 0),
              !.is_nonnegative = (m.acc < BASE \div 2)]

\* reset without its last two statements: the termination flag and the
\* error survive.
reset_keeping_termination(m) ==
    _set_flags([m EXCEPT !.pc = 0, !.acc = 0, !.mar = 0, !.mdr = 0,
                         !.cir = <<0, 0>>, !.carry = 1])

reset(m) ==
    LET r == [m EXCEPT !.pc = 0, !.acc = 0, !.mar = 0, !.mdr = 0,
                       !.cir = <<0, 0>>, !.carry = 1]
    IN  [_set_flags(r) EXCEPT !.is_terminated = FALSE, !.error = None]

clear(m) == reset([m EXCEPT !.mem = [i \in 0..(MEMSIZE - 1) |-> 0]])

\* self.mem[self.mar] = self.mdr
_write_mem(m) ==
    IF PyIndexOk(m.mar, MEMSIZE)
    THEN [m EXCEPT !.mem[PyIndex(m.mar, MEMSIZE)] = m.mdr]
    ELSE [m EXCEPT !.exc = "IndexError"]

\* self.mdr = self.mem[self.mar]
_read_mem(m) ==
    IF PyIndexOk(m.mar, MEMSIZE)
    THEN [m EXCEPT !.mdr = m.mem[PyIndex(m.mar, MEMSIZE)]]
    ELSE [m EXCEPT !.exc = "IndexError"]

\* for self.mar, self.mdr in program: self._write_mem()
RECURSIVE load_loop(_, _)
load_loop(m, program) ==
    IF program = <<>> THEN m
    ELSE LET p == Head(program)
             w == _write_mem([m EXCEPT !.mar = p[1], !.mdr = p[2]])
         IN  IF w.exc # None THEN w ELSE load_loop(w, Tail(program))

\* load without the closing self.reset().
load_without_reset(m, program) == load_loop(m, program)

load(m, program) ==
    LET w == load_loop(m, program)
    IN  IF w.exc # None THEN w ELSE reset(w)

\* A run_state that does not look at the error.
run_state_ignoring_error(m) ==
    IF ~m.is_terminated THEN "run" ELSE "halt"

run_state(m) ==
    IF ~m.is_terminated THEN "run"
    ELSE IF m.error # None THEN "abort"
    ELSE "halt"

fetch(m) ==
    LET a == [m EXCEPT !.mar = m.pc]
    IN  IF PyIndexOk(a.mar, MEMSIZE)
        THEN [a EXCEPT !.mdr = a.mem[PyIndex(a.mar, MEMSIZE)], !.pc = a.pc + 1]
        ELSE [a EXCEPT !.exc = "IndexError"]

\* A decode that calls _write_mem where the source calls _read_mem.
decode_writing(m) ==
    LET c == <<m.mdr \div MEMSIZE, m.mdr % MEMSIZE>>
    IN  _write_mem([m EXCEPT !.cir = c, !.mar = c[2]])

decode(m) ==
    LET c == <<m.mdr \div MEMSIZE, m.mdr % MEMSIZE>>
    IN  _read_mem([m EXCEPT !.cir = c, !.mar = c[2]])

\* The end of execute without self.acc %= self.BASE.
execute_tail_untruncated(m) ==
    _set_flags([m EXCEPT !.carry = m.acc \div BASE])

\* The three statements every case of execute falls through to.
execute_tail(m) ==
    _set_flags([m EXCEPT !.carry = m.acc \div BASE, !.acc = m.acc % BASE])

\* An INP case that stores what it read before it tests it.
execute_inp_storing_first(m) ==
    IF ~m.inp.installed THEN [m EXCEPT !.exc = "AttributeError"]
    ELSE LET got == int_provider_value(m.inp)
             a == [m EXCEPT !.inp = int_provider_rest(m.inp), !.acc = got.n]
         IN  IF got.eof
             THEN [a EXCEPT !.error = "End of input file", !.is_terminated = TRUE]
             ELSE IF ~(0 <= got.n /\ got.n < BASE)
             THEN [a EXCEPT !.error = "Input out of range", !.is_terminated = TRUE]
             ELSE execute_tail(a)

execute_inp(m) ==
    IF ~m.inp.installed THEN [m EXCEPT !.exc = "AttributeError"]
    ELSE LET got == int_provider_value(m.inp)
             a == [m EXCEPT !.inp = int_provider_rest(m.inp)]
         IN  IF got.eof
             THEN [a EXCEPT !.error = "End of input file", !.is_terminated = TRUE]
             ELSE IF ~(0 <= got.n /\ got.n < BASE)
             THEN [a EXCEPT !.error = "Input out of range", !.is_terminated = TRUE]
             ELSE execute_tail([a EXCEPT !.acc = got.n])

execute_out(m) ==
    IF ~m.out.installed THEN [m EXCEPT !.exc = "AttributeError"]
    ELSE execute_tail([m EXCEPT !.out = IntWriter_write(m.out, m.acc)])

\* An execute with the branch opcodes as disassemble names them: 6 is BRZ,
\* 7 is BRP, 8 is BRA.
execute_branches_as_disassembled(m) ==
    LET op == m.cir[1] IN
    CASE op = 0 -> execute_tail([m EXCEPT !.is_terminated = TRUE])
      [] op = 1 -> execute_tail([m EXCEPT !.acc = m.acc + m.mdr])
      [] op = 2 -> execute_tail([m EXCEPT !.acc = m.acc + (BASE - m.mdr)])
      [] op = 3 -> LET w == _write_mem([m EXCEPT !.mdr = m.acc])
                   IN  IF w.exc # None THEN w ELSE execute_tail(w)
      [] op = 5 -> execute_tail([m EXCEPT !.acc = m.mdr])
      [] op = 6 -> execute_tail(IF m.is_zero THEN [m EXCEPT !.pc = m.mar] ELSE m)
      [] op = 7 -> execute_tail(IF m.is_nonnegative THEN [m EXCEPT !.pc = m.mar] ELSE m)
      [] op = 8 -> execute_tail([m EXCEPT !.pc = m.mar])
      [] op = 9 /\ m.cir[2] = 1 -> execute_inp(m)
      [] op = 9 /\ m.cir[2] = 2 -> execute_out(m)
      [] OTHER -> execute_tail([m EXCEPT !.error = "Bad instruction",
                                         !.is_terminated = TRUE])

execute(m) ==
    LET op == m.cir[1] IN
    CASE op = 0 -> execute_tail([m EXCEPT !.is_terminated = TRUE])
      [] op = 1 -> execute_tail([m EXCEPT !.acc = m.acc + m.mdr])
      [] op = 2 -> execute_tail([m EXCEPT !.acc = m.acc + (BASE - m.mdr)])
      [] op = 3 -> LET w == _write_mem([m EXCEPT !.mdr = m.acc])
                   IN  IF w.exc # None THEN w ELSE execute_tail(w)
      [] op = 5 -> execute_tail([m EXCEPT !.acc = m.mdr])
      [] op = 6 -> execute_tail([m EXCEPT !.pc = m.mar])
      [] op = 7 -> execute_tail(IF m.is_zero THEN [m EXCEPT !.pc = m.mar] ELSE m)
      [] op = 8 -> execute_tail(IF m.is_nonnegative THEN [m EXCEPT !.pc = m.mar] ELSE m)
      [] op = 9 /\ m.cir[2] = 1 -> execute_inp(m)
      [] op = 9 /\ m.cir[2] = 2 -> execute_out(m)
      [] OTHER -> execute_tail([m EXCEPT !.error = "Bad instruction",
                                         !.is_terminated = TRUE])

\* single_step without the test of run_state.
single_step_unguarded(m) ==
    LET f == fetch(m)
    IN  IF f.exc # None THEN f ELSE execute(decode(f))

single_step(m) ==
    IF run_state(m) = "run"
    THEN LET f == fetch(m)
         IN  IF f.exc # None THEN f ELSE execute(decode(f))
    ELSE m

\* while True: self.single_step(); if self.run_state != "run": break
\* A call that has not returned after fuel + 1 cycles is marked "Diverges".
RECURSIVE run_loop(_, _)
run_loop(m, fuel) ==
    LET s == single_step(m)
    IN  IF s.exc # None THEN s
        ELSE IF run_state(s) # "run" THEN s
        ELSE IF fuel = 0 THEN [s EXCEPT !.exc = "Diverges"]
        ELSE run_loop(s, fuel - 1)

\* A run that makes one call of single_step and returns.
run_one_cycle(m) == single_step(m)

run(m) == run_loop(m, MaxRunSteps)

set_input(m, func) == [m EXCEPT !.inp = func]

set_output(m, func) == [m EXCEPT !.out = func]

\* LMC(): self.mem = [0] * self.MEMSIZE; self.reset(); no adapter installed.
LMC_init ==
    reset([pc |-> 0, acc |-> 0, mar |-> 0, mdr |-> 0, cir |-> <<0, 0>>,
           carry |-> 0, is_zero |-> FALSE, is_nonnegative |-> FALSE,
           mem |-> [i \in 0..(MEMSIZE - 1) |-> 0],
           error |-> None, is_terminated |-> FALSE,
           inp |-> NoInput, out |-> NoOutput, exc |-> None])

\* ------------------------------------------- the assembler (assembler.py)
\* Tokens as the grammar's terminal callbacks leave them: ADDR and
\* SIGNED_NUMBER carry an int, LABEL the text as a sequence of characters;
\* NoItem is the None child of a DAT without operand.
LABEL(text) == [type |-> "LABEL", text |-> text, value |-> 0]
ADDR(n) == [type |-> "ADDR", text |-> <<>>, value |-> n]
SIGNED_NUMBER(n) == [type |-> "SIGNED_NUMBER", text |-> <<>>, value |-> n]
NoItem == [type |-> "None", text |-> <<>>, value |-> 0]
\* Tree(data, [child])
Tree(data, child) == [data |-> data, child |-> child]

\* str.lower() on the characters LABEL can hold.
UpperCase == <<"A", "B", "C", "D", "E", "F", "G", "H", "I", "J", "K", "L", "M",
               "N", "O", "P", "Q", "R", "S", "T", "U", "V", "W", "X", "Y", "Z">>
LowerCase == <<"a", "b", "c", "d", "e", "f", "g", "h", "i", "j", "k", "l", "m",
               "n", "o", "p", "q", "r", "s", "t", "u", "v", "w", "x", "y", "z">>
lower_char(c) ==
    IF \E i \in DOMAIN UpperCase : UpperCase[i] = c
    THEN LowerCase[CHOOSE i \in DOMAIN UpperCase : UpperCase[i] = c]
    ELSE c
lower(text) == [i \in DOMAIN text |-> lower_char(text[i])]

\* An entry of Assembler.memory: (location, word) or, for an instruction
\* with an operand, (location, (opcode, operand)) until the fix-up loop.
Word(location, word) ==
    [location |-> location, tuple |-> FALSE, word |-> word,
     opcode |-> 0, operand |-> NoItem]
Pending(location, opcode, operand) ==
    [location |-> location, tuple |-> TRUE, word |-> 0,
     opcode |-> opcode, operand |-> operand]

\* Assembler(): labels = {}, memory = [], location = 0.
Assembler_init == [labels |-> <<>>, memory |-> <<>>, location |-> 0, exc |-> None]

\* self.labels[key] = location
dict_set(d, key, v) ==
    [k \in DOMAIN d \cup {key} |-> IF k = key THEN v ELSE d[k]]

\* self.memory.append(entry); self.location += 1
emit(a, entry) ==
    [a EXCEPT !.memory = Append(a.memory, entry), !.location = a.location + 1]

\* A labeldef case that binds the number of words emitted so far.
case_labeldef_counting_words(a, addr) ==
    [a EXCEPT !.labels = dict_set(a.labels, lower(addr.text), Len(a.memory))]

\* case Tree("labeldef", [addr])
case_labeldef(a, addr) ==
    [a EXCEPT !.labels = dict_set(a.labels, lower(addr.text), a.location)]

\* An org case that fills the address it moves to with a zero word.
case_org_emitting(a, addr) ==
    emit([a EXCEPT !.location = addr.value], Word(addr.value, 0))

\* case Tree("org", [addr])
case_org(a, addr) == [a EXCEPT !.location = addr.value]

\* case Tree("dat", [item])
case_dat(a, item) ==
    LET value == IF item.type = "None" THEN 0 ELSE item.value
    IN  IF ~(-999 <= value /\ value <= 999)
        THEN [a EXCEPT !.exc = "UnexpectedInput"]
        ELSE emit(a, Word(a.location, value))

\* The opcode the case of an instruction with an operand emits.
opcode_base(data) ==
    CASE data = "add" -> 100
      [] data = "sub" -> 200
      [] data = "sta" -> 300
      [] data = "lda" -> 500
      [] data = "bra" -> 600
      [] data = "brz" -> 700
      [] data = "brp" -> 800

\* One turn of the loop over the trees: the match statement.
match_tree(a, tree) ==
    CASE tree.data = "labeldef" -> case_labeldef(a, tree.child)
      [] tree.data = "org" -> case_org(a, tree.child)
      [] tree.data = "dat" -> case_dat(a, tree.child)
      [] tree.data = "hlt" -> emit(a, Word(a.location, 0))
      [] tree.data \in {"add", "sub", "sta", "lda", "bra", "brz", "brp"} ->
            emit(a, Pending(a.location, opcode_base(tree.data), tree.child))
      [] tree.data = "inp" -> emit(a, Word(a.location, 901))
      [] tree.data = "out" -> emit(a, Word(a.location, 902))
      [] OTHER -> a

\* for tree in lines: match tree: ...
RECURSIVE first_loop(_, _)
first_loop(a, lines) ==
    IF lines = <<>> THEN a
    ELSE LET b == match_tree(a, Head(lines))
         IN  IF b.exc # None THEN b ELSE first_loop(b, Tail(lines))

\* A lookup that defaults a missing label to address 0.
resolve_defaulting(table, operand) ==
    IF operand.type = "ADDR" THEN [exc |-> None, value |-> operand.value]
    ELSE IF lower(operand.text) \in DOMAIN table
    THEN [exc |-> None, value |-> table[lower(operand.text)]]
    ELSE [exc |-> None, value |-> 0]

\* int(self.labels.get(str(label).lower(), label)): an ADDR operand is no
\* key of labels and comes back as its int; a LABEL that is no key comes
\* back as its text, which int() refuses (a LABEL starts with a letter or _).
resolve(table, operand) ==
    IF operand.type = "ADDR" THEN [exc |-> None, value |-> operand.value]
    ELSE IF lower(operand.text) \in DOMAIN table
    THEN [exc |-> None, value |-> table[lower(operand.text)]]
    ELSE [exc |-> "ValueError", value |-> 0]

\* for index, item in enumerate(self.memory): ...
RECURSIVE fixup_loop(_, _)
fixup_loop(a, index) ==
    IF index > Len(a.memory) THEN a
    ELSE LET item == a.memory[index]
         IN  IF ~item.tuple THEN fixup_loop(a, index + 1)
             ELSE LET r == resolve(a.labels, item.operand)
                  IN  IF r.exc # None THEN [a EXCEPT !.exc = r.exc]
                      ELSE fixup_loop(
                             [a EXCEPT !.memory[index] =
                                Word(item.location, item.opcode + r.value)],
                             index + 1)

\* Assembler.start(lines): the instance as the call leaves it.
start(a, lines) ==
    LET b == first_loop(a, lines)
    IN  IF b.exc # None THEN b ELSE fixup_loop(b, 1)

\* The Memory Image start returns: the list of (location, word) pairs.
image_of(memory_list) ==
    [i \in DOMAIN memory_list |-> <<memory_list[i].location, memory_list[i].word>>]

\* ------------------------------------------------------ inputs of the model
\* Memory images handed to load: short programs that between them take
\* every path of execute.
\*   INP / ADD 2 / HLT 1 (the word 1 is also the addend)
ImgAdd == << <<0, 901>>, <<1, 102>>, <<2, 1>> >>
\*   BRA 99 / ... / OUT at 99, after which the program counter leaves memory
ImgOffEnd == << <<0, 699>>, <<99, 902>> >>
\*   address 0 named twice: opcode 4, then opcode 9 with address 50
ImgBad == << <<0, 400>>, <<0, 950>> >>
\*   INP / BRZ 99 / BRP 0 / opcode 4
ImgBranch == << <<0, 901>>, <<1, 799>>, <<2, 800>>, <<3, 400>> >>
\*   INP / STA 99 / LDA 99 / SUB 99 / BRZ 0
ImgStore == << <<0, 901>>, <<1, 399>>, <<2, 599>>, <<3, 299>>, <<4, 700>> >>
\*   BRA 0
ImgLoop == << <<0, 600>> >>
\* Hand-built images with an address outside 0..99.
ImgHigh == << <<0, 901>>, <<100, 5>> >>
ImgNeg == << <<-1, 5>> >>

Images == {<<>>, ImgAdd, ImgOffEnd, ImgBad, ImgBranch, ImgStore,
           ImgLoop, ImgHigh, ImgNeg}

\* Lists of cards handed to int_reader: none, a negative card, a positive
\* one, the most negative value, one above and one below the range, and two
\* cards, the second of them above the range.
CardLists == {<<>>, <<-1>>, <<1>>, <<-500>>, <<1000>>, <<-1001>>, <<1, 1000>>}

\* Sources handed to the assembler, as the list of trees the grammar hands
\* to start: an instruction is an operation, with a label definition in
\* front of it or without (_instruction: labeldef? op).
MaxInstructions == 3

Operations ==
    {Tree("org", ADDR(99)),
     Tree("dat", NoItem), Tree("dat", SIGNED_NUMBER(-999)),
     Tree("dat", SIGNED_NUMBER(1000)),
     Tree("hlt", NoItem),
     Tree("add", LABEL(<<"a">>)), Tree("sub", LABEL(<<"A">>)),
     Tree("lda", LABEL(<<"b">>)), Tree("brp", ADDR(99))}
LabelDefs == {Tree("labeldef", LABEL(<<"a">>)), Tree("labeldef", LABEL(<<"A">>))}
LabelledOperations == {Tree("dat", NoItem), Tree("hlt", NoItem)}
Instructions ==
    {<<op>> : op \in Operations}
        \cup {<<d, op>> : d \in LabelDefs, op \in LabelledOperations}

RECURSIVE SourcesUpTo(_)
SourcesUpTo(n) ==
    IF n = 0 THEN {<<>>}
    ELSE LET shorter == SourcesUpTo(n - 1)
         IN  shorter \cup {q \o i : q \in shorter, i \in Instructions}

\* The two programs of test_add_sub.py.
SrcAdd ==
    << Tree("inp", NoItem), Tree("sta", LABEL(<<"a">>)), Tree("inp", NoItem),
       Tree("add", LABEL(<<"a">>)), Tree("out", NoItem), Tree("hlt", NoItem),
       Tree("labeldef", LABEL(<<"a">>)), Tree("dat", NoItem) >>
SrcSub ==
    << Tree("inp", NoItem), Tree("sta", LABEL(<<"a">>)), Tree("inp", NoItem),
       Tree("sta", LABEL(<<"b">>)), Tree("lda", LABEL(<<"a">>)),
       Tree("sub", LABEL(<<"b">>)), Tree("out", NoItem), Tree("hlt", NoItem),
       Tree("labeldef", LABEL(<<"a">>)), Tree("dat", NoItem),
       Tree("labeldef", LABEL(<<"b">>)), Tree("dat", NoItem) >>
\* A loop with a backward and a forward branch, and a literal address.
SrcLoop ==
    << Tree("labeldef", LABEL(<<"T", "o", "p">>)), Tree("inp", NoItem),
       Tree("brz", LABEL(<<"e", "n", "d">>)), Tree("sta", ADDR(10)),
       Tree("bra", LABEL(<<"t", "o", "p">>)),
       Tree("labeldef", LABEL(<<"E", "n", "d">>)), Tree("hlt", NoItem) >>

Sources == SourcesUpTo(MaxInstructions) \cup {SrcAdd, SrcSub, SrcLoop}

\* ------------------------------------------------------------------ state
VARIABLES
    pc, acc, mar, mdr, cir, carry, is_zero, is_nonnegative,  \* LMC registers
    mem,                       \* LMC.mem
    error, is_terminated,      \* LMC._error, LMC._is_terminated
    inp, out,                  \* LMC._read_input, LMC._write_output
    exc,                       \* exception the last call raised, or None
    call,                      \* the last call: its name, argument, run state before
    direct,                    \* calls of fetch, decode, execute, write on their own
    labels, memory, location,  \* the fields of the Assembler
    source,                    \* the trees start was called with
    asm_pc,                    \* "new", or how asm ended: "returned", "raised", "tree"
    asm_exc,                   \* the exception start raised, or None
    returned,                  \* the Memory Image start returned
    conv,                      \* the last call of a conversion function
    scenario,                  \* the test of test_add_sub.py under way
    listing                    \* a word on its way from mnemonic to listing

lmc_vars == <<pc, acc, mar, mdr, cir, carry, is_zero, is_nonnegative, mem,
              error, is_terminated, inp, out, exc, call, direct>>
asm_vars == <<labels, memory, location, source, asm_pc, asm_exc, returned>>
vars == <<lmc_vars, asm_vars, conv, scenario, listing>>

Machine ==
    [pc |-> pc, acc |-> acc, mar |-> mar, mdr |-> mdr, cir |-> cir,
     carry |-> carry, is_zero |-> is_zero, is_nonnegative |-> is_nonnegative,
     mem |-> mem, error |-> error, is_terminated |-> is_terminated,
     inp |-> inp, out |-> out, exc |-> None]

RunState == run_state(Machine)

\* The state after a call that left the machine as m.
Becomes(m) ==
    /\ pc' = m.pc /\ acc' = m.acc /\ mar' = m.mar /\ mdr' = m.mdr
    /\ cir' = m.cir /\ carry' = m.carry
    /\ is_zero' = m.is_zero /\ is_nonnegative' = m.is_nonnegative
    /\ mem' = m.mem /\ error' = m.error /\ is_terminated' = m.is_terminated
    /\ inp' = m.inp /\ out' = m.out /\ exc' = m.exc

Records(op, arg) == call' = [op |-> op, arg |-> arg, before |-> RunState]

Calls(op, arg) == Records(op, arg) /\ direct' = direct

\* A call of one phase of the cycle, or of write, on its own.
CallsDirectly(op, arg) ==
    /\ direct < MaxDirectCalls
    /\ Records(op, arg) /\ direct' = direct + 1
    /\ UNCHANGED <<asm_vars, conv, scenario, listing>>

Called(op, arg) ==
    /\ Calls(op, arg)
    /\ UNCHANGED <<asm_vars, conv, scenario, listing>>

\* No conversion function called, no test under way.
NoConversion ==
    [fn |-> "none", arg |-> 0, result |-> 0, prev_fn |-> "none", prev_arg |-> 0]
NoScenario == [stage |-> "none", source |-> <<>>, a |-> 0, b |-> 0, signed |-> FALSE]
NoListing ==
    [stage |-> "none", data |-> "none", addr |-> 0, text |-> Text("none", <<>>)]

\* The state right after the constructors LMC() and Assembler().
Constructed ==
    /\ pc = LMC_init.pc /\ acc = LMC_init.acc /\ mar = LMC_init.mar
    /\ mdr = LMC_init.mdr /\ cir = LMC_init.cir /\ carry = LMC_init.carry
    /\ is_zero = LMC_init.is_zero /\ is_nonnegative = LMC_init.is_nonnegative
    /\ mem = LMC_init.mem /\ error = LMC_init.error
    /\ is_terminated = LMC_init.is_terminated
    /\ inp = LMC_init.inp /\ out = LMC_init.out /\ exc = LMC_init.exc
    /\ call = [op |-> "init", arg |-> <<>>, before |-> "run"]
    /\ direct = 0
    /\ labels = Assembler_init.labels /\ memory = Assembler_init.memory
    /\ location = Assembler_init.location
    /\ source = <<>> /\ asm_pc = "new" /\ asm_exc = None /\ returned = <<>>

Init ==
    /\ Constructed
    /\ conv = NoConversion /\ scenario = NoScenario /\ listing = NoListing

Reset == Becomes(reset(Machine)) /\ Called("reset", <<>>)

Clear == Becomes(clear(Machine)) /\ Called("clear", <<>>)

Load(program) == Becomes(load(Machine, program)) /\ Called("load", program)

SetInput(cards) ==
    Becomes(set_input(Machine, int_reader(cards))) /\ Called("set_input", <<>>)

SetOutput ==
    Becomes(set_output(Machine, IntWriter(FALSE))) /\ Called("set_output", <<>>)

SingleStep ==
    LET m == single_step(Machine)
    IN  /\ Len(m.out.cards) <= MaxOutput
        /\ Becomes(m)
        /\ Called("single_step", <<>>)

Run ==
    LET m == run(Machine)
    IN  /\ m.exc # "Diverges"
        /\ Len(m.out.cards) <= MaxOutput
        /\ Becomes(m)
        /\ Called("run", <<>>)

\* reset() of the IntWriter whose write method is installed.
WriterReset ==
    /\ out.installed
    /\ Becomes([Machine EXCEPT !.out = IntWriter_reset(out)])
    /\ Called("writer_reset", <<>>)

Next ==
    \/ Reset
    \/ Clear
    \/ \E program \in Images : Load(program)
    \/ \E cards \in CardLists : SetInput(cards)
    \/ SetOutput
    \/ SingleStep
    \/ Run
    \/ WriterReset

Spec == Init /\ [][Next]_vars

\* --------------------------------------------- every public method
\* The engine driven through all its public methods: the calls of Next,
\* and the phases of the cycle and the writer's write called on their own.
\* fetch(), decode() and execute() called on their own, outside single_step.
Fetch == Becomes(fetch(Machine)) /\ CallsDirectly("fetch", <<>>)

Decode == Becomes(decode(Machine)) /\ CallsDirectly("decode", <<>>)

Execute ==
    LET m == execute(Machine)
    IN  /\ Len(m.out.cards) <= MaxOutput
        /\ Becomes(m)
        /\ CallsDirectly("execute", <<>>)

\* write(value) of the IntWriter whose write method is installed.
WrittenValues == {0, 500}

Write(value) ==
    LET w == IntWriter_write(out, value)
    IN  /\ out.installed
        /\ Len(w.cards) <= MaxOutput
        /\ Becomes([Machine EXCEPT !.out = w])
        /\ CallsDirectly("write", <<value>>)

\* Programs and cards for the calls mixed with direct ones.
DirectImages == {ImgAdd, ImgBranch, ImgStore, ImgHigh}
DirectCards == {<<1>>}

NextDirect ==
    \/ Reset
    \/ Clear
    \/ \E program \in DirectImages : Load(program)
    \/ \E cards \in DirectCards : SetInput(cards)
    \/ SetOutput
    \/ SingleStep
    \/ Run
    \/ WriterReset
    \/ Fetch
    \/ Decode
    \/ Execute
    \/ \E value \in WrittenValues : Write(value)

SpecDirect == Init /\ [][NextDirect]_vars

\* The Assembler instance asm(src) hands to the parser as transformer.
Assembler == [labels |-> labels, memory |-> memory, location |-> location,
              exc |-> None]

\* ?start: a rule written with ? and no alias is inlined when the parse
\* hands it exactly one child: the parser hands that child on and does not
\* call the transformer's method start.
start_inlined(lines) == Len(lines) = 1

\* asm(src) with the trees of src: start is called once with the list and
\* asm returns the Memory Image or lets the exception through, unless the
\* rule is inlined: then asm returns the one tree (kept in returned as the
\* list holding it), raises nothing and leaves the Assembler as constructed.
Assembles(lines) ==
    /\ asm_pc = "new"
    /\ source' = lines
    /\ IF start_inlined(lines)
       THEN /\ UNCHANGED <<labels, memory, location>>
            /\ asm_exc' = None /\ asm_pc' = "tree" /\ returned' = lines
       ELSE LET a == start(Assembler, lines)
            IN  /\ labels' = a.labels /\ memory' = a.memory
                /\ location' = a.location
                /\ asm_exc' = a.exc
                /\ asm_pc' = IF a.exc = None THEN "returned" ELSE "raised"
                /\ returned' = IF a.exc = None THEN image_of(a.memory) ELSE <<>>

Start(lines) ==
    Assembles(lines) /\ UNCHANGED <<lmc_vars, conv, scenario, listing>>

NextAsm == \E lines \in Sources : Start(lines)

SpecAsm == Init /\ [][NextAsm]_vars

\* ------------------------------------- the scenarios of test_add_sub.py
\* One of the two programs is assembled, the engine is reset and cleared
\* (in either order), the image is loaded, int_reader([a, b]) and the
\* write method of an IntWriter are installed, and run is called.
\* The cards a and b: the values of the tests, the ends of 0..999, the
\* values around the sign change at 500, and one card beyond either end.
Samples == {-1, 0, 1, 4, 17, 20, 22, 498, 499, 500, 501, 998, 999, 1000}

InitScenario ==
    /\ Constructed /\ conv = NoConversion /\ listing = NoListing
    /\ \E lines \in {SrcAdd, SrcSub}, a \in Samples, b \in Samples,
          signed \in BOOLEAN :
          scenario = [stage |-> "new", source |-> lines, a |-> a, b |-> b,
                      signed |-> signed]

Stage(from, to) ==
    /\ scenario.stage = from
    /\ scenario' = [scenario EXCEPT !.stage = to]
    /\ UNCHANGED <<conv, listing>>

ScenarioAssemble ==
    /\ Stage("new", "assembled")
    /\ Assembles(scenario.source)
    /\ UNCHANGED lmc_vars

ScenarioReset ==
    /\ scenario.stage \in {"assembled", "cleared"}
    /\ Becomes(reset(Machine)) /\ Called("reset", <<>>)

ScenarioClear ==
    /\ Stage("assembled", "cleared")
    /\ Becomes(clear(Machine)) /\ Calls("clear", <<>>)
    /\ UNCHANGED asm_vars

ScenarioLoad ==
    /\ Stage("cleared", "loaded")
    /\ asm_pc = "returned"
    /\ Becomes(load(Machine, returned)) /\ Calls("load", returned)
    /\ UNCHANGED asm_vars

ScenarioSetInput ==
    /\ Stage("loaded", "input")
    /\ Becomes(set_input(Machine, int_reader(<<scenario.a, scenario.b>>)))
    /\ Calls("set_input", <<>>)
    /\ UNCHANGED asm_vars

ScenarioSetOutput ==
    /\ Stage("input", "output")
    /\ Becomes(set_output(Machine, IntWriter(scenario.signed)))
    /\ Calls("set_output", <<>>)
    /\ UNCHANGED asm_vars

ScenarioRun ==
    /\ Stage("output", "ran")
    /\ LET m == run(Machine)
       IN  m.exc # "Diverges" /\ Becomes(m)
    /\ Calls("run", <<>>)
    /\ UNCHANGED asm_vars

ScenarioWriterReset ==
    /\ Stage("ran", "emptied")
    /\ out.installed
    /\ Becomes([Machine EXCEPT !.out = IntWriter_reset(out)])
    /\ Calls("writer_reset", <<>>)
    /\ UNCHANGED asm_vars

NextScenario ==
    \/ ScenarioAssemble
    \/ ScenarioReset
    \/ ScenarioClear
    \/ ScenarioLoad
    \/ ScenarioSetInput
    \/ ScenarioSetOutput
    \/ ScenarioRun
    \/ ScenarioWriterReset

SpecScenario == InitScenario /\ [][NextScenario]_vars

\* ------------------------------------------- the conversion functions
\* A value handed to tens_complement or to_signed, then each function
\* applied to what the call before it returned; conv keeps the last call
\* (fn, arg, result) and the function and argument of the call before it.
ConvInputs == (-BASE)..BASE

InitConv ==
    /\ Constructed /\ scenario = NoScenario /\ listing = NoListing
    /\ \E v \in ConvInputs :
          conv = [fn |-> "input", arg |-> v, result |-> v,
                  prev_fn |-> "none", prev_arg |-> 0]

TensComplement ==
    /\ conv' = [fn |-> "tens_complement", arg |-> conv.result,
                result |-> tens_complement(conv.result),
                prev_fn |-> conv.fn, prev_arg |-> conv.arg]
    /\ UNCHANGED <<lmc_vars, asm_vars, scenario, listing>>

ToSigned ==
    /\ conv' = [fn |-> "to_signed", arg |-> conv.result,
                result |-> to_signed(conv.result),
                prev_fn |-> conv.fn, prev_arg |-> conv.arg]
    /\ UNCHANGED <<lmc_vars, asm_vars, scenario, listing>>

NextConv == TensComplement \/ ToSigned

SpecConv == InitConv /\ [][NextConv]_vars

\* ------------------------------------------------------- the listing
\* An instruction with an operand that stands for the address addr, one
\* without operand, or any word of memory written with dat, is assembled,
\* the image loaded, the word fetched and decoded, and cir handed to
\* disassemble, as the property memory of LMC does.
WithOperand == {"add", "sub", "sta", "lda", "bra", "brz", "brp"}
WithoutOperand == {"hlt", "inp", "out"}

\* The addresses the terminal ADDR matches: /0/ | /[1-9][0-9]/.
Literals == {0} \cup 10..(MEMSIZE - 1)

\* The trees of a source whose first word is the instruction data with
\* the address n: n as a literal where ADDR matches it, else a label
\* defined at location n; or the word n itself, written with dat.
ListingSource(data, n) ==
    LET halt == Tree("hlt", NoItem)
        a == LABEL(<<"a">>)
    IN  IF data \in WithOperand
        THEN IF n \in Literals
             THEN <<Tree(data, ADDR(n)), halt>>
             ELSE <<Tree(data, a)>> \o [i \in 1..(n - 1) |-> halt]
                      \o <<Tree("labeldef", a), halt>>
        ELSE IF data \in WithoutOperand
        THEN <<Tree(data, NoItem), halt>>
        ELSE <<Tree("dat", SIGNED_NUMBER(n)), halt>>

InitListing ==
    /\ Constructed /\ conv = NoConversion /\ scenario = NoScenario
    /\ \E data \in WithOperand \cup WithoutOperand \cup {"word"},
          n \in 0..(BASE - 1) :
          /\ data \in WithOperand => n \in 0..(MEMSIZE - 1)
          /\ data \in WithoutOperand => n = 0
          /\ listing = [NoListing EXCEPT !.stage = "source",
                                         !.data = data, !.addr = n]

Listed(from, to) ==
    /\ listing.stage = from
    /\ listing' = [listing EXCEPT !.stage = to]
    /\ UNCHANGED <<conv, scenario>>

\* asm(src): start leaves the words in memory and returns the image.
Encode ==
    /\ Listed("source", "image")
    /\ Assembles(ListingSource(listing.data, listing.addr))
    /\ UNCHANGED lmc_vars

ListingLoad ==
    /\ Listed("image", "loaded")
    /\ asm_pc = "returned"
    /\ Becomes(load(Machine, returned)) /\ Calls("load", returned)
    /\ UNCHANGED asm_vars

ListingFetch ==
    /\ Listed("loaded", "fetched")
    /\ Becomes(fetch(Machine)) /\ Calls("fetch", <<>>)
    /\ UNCHANGED asm_vars

ListingDecode ==
    /\ Listed("fetched", "decoded")
    /\ Becomes(decode(Machine)) /\ Calls("decode", <<>>)
    /\ UNCHANGED asm_vars

\* disassemble(*self.cir)
Disassemble ==
    /\ listing.stage = "decoded"
    /\ listing' = [listing EXCEPT !.stage = "text",
                                  !.text = disassemble(cir[1], cir[2])]
    /\ UNCHANGED <<lmc_vars, asm_vars, conv, scenario>>

NextListing ==
    \/ Encode
    \/ ListingLoad
    \/ ListingFetch
    \/ ListingDecode
    \/ Disassemble

SpecListing == InitListing /\ [][NextListing]_vars

\* ------------------------------------------------------------- properties
\* Registers, flags, run state and error as reset leaves them.
AtPowerOn ==
    /\ pc = 0 /\ acc = 0 /\ mar = 0 /\ mdr = 0 /\ cir = <<0, 0>>
    /\ is_zero /\ is_nonnegative
    /\ RunState = "run" /\ error = None

Cells == 0..(MEMSIZE - 1)

\* C1: once the engine is HALTED or ABORTED, however it got there, a
\* single_step changes no register, flag, memory cell, error, run state or
\* output and raises nothing; the run state stays that terminal state
\* under every call other than reset, clear, load and a call of execute on
\* its own, and no call other than reset, clear and load makes it RUNNING.
C1_TerminalStepIsNoOp ==
    /\ [][(RunState # "run" /\ call'.op = "single_step")
            => /\ UNCHANGED <<pc, acc, mar, mdr, cir, is_zero, is_nonnegative,
                              mem, error, is_terminated, out>>
               /\ exc' = None]_vars
    /\ [][(RunState # "run"
             /\ call'.op \notin {"reset", "clear", "load", "execute"})
            => RunState' = RunState]_vars
    /\ [][(RunState # "run" /\ call'.op \notin {"reset", "clear", "load"})
            => RunState' # "run"]_vars

\* A single_step was called on an ABORTED engine that had emitted output.
C1_Witness ==
    /\ call.op = "single_step" /\ call.before = "abort"
    /\ RunState = "abort" /\ out.cards # <<>>

\* A cycle of single_step ran to the end of execute.
Stepped(op) ==
    /\ RunState = "run" /\ call'.op = "single_step" /\ exc' = None
    /\ cir'[1] = op

\* C2: the accumulator is in 0..999 in every reachable state, and a step
\* that executes ADD (SUB) leaves the sum (difference) modulo 1000 in it.
C2_AccTruncated ==
    /\ [](acc \in 0..(BASE - 1))
    /\ [][Stepped(1) => acc' = (acc + mdr') % BASE]_vars
    /\ [][Stepped(2) => acc' = (acc + BASE - mdr') % BASE]_vars

\* ADD of a word holding 1 has just carried out of the accumulator, which
\* held 999, and left 0 there.
C2_Witness ==
    /\ call.op = "single_step" /\ call.before = "run" /\ exc = None
    /\ cir[1] = 1 /\ mdr = 1 /\ carry = 1 /\ acc = 0

\* C3: with both adapters installed and every memory word in 0..999, a
\* single_step taken in state RUNNING raises no exception.
C3_StepNeverRaises ==
    (/\ call.op = "single_step" /\ call.before = "run"
     /\ inp.installed /\ out.installed
     /\ \A c \in Cells : mem[c] \in 0..(BASE - 1))
        => exc = None

\* The lower-cased labels the trees define, and the ones they refer to.
DefinedAt(lines) ==
    {i \in DOMAIN lines : lines[i].data = "labeldef"}
Defined(lines) == {lower(lines[i].child.text) : i \in DefinedAt(lines)}
Referred(lines) ==
    {lower(lines[i].child.text) :
        i \in {j \in DOMAIN lines : /\ lines[j].data # "labeldef"
                                    /\ lines[j].child.type = "LABEL"}}

\* C4: a source that defines a label twice (compared without case) makes
\* start raise instead of returning a Memory Image.
C4_DuplicateLabelRaises ==
    (/\ asm_pc # "new"
     /\ \E i, j \in DefinedAt(source) :
            i < j /\ lower(source[i].child.text) = lower(source[j].child.text))
        => asm_pc = "raised"

\* The trees that emit a word, in order: the k-th one emits entry k.
Emitting(lines) ==
    SelectSeq(lines, LAMBDA t : t.data \notin {"labeldef", "org"})
DatValue(t) == IF t.child.type = "None" THEN 0 ELSE t.child.value

\* C5: the word a DAT emits is the tens complement of its operand and so
\* lies in 0..999.
C5_DatEmitsTensComplement ==
    asm_pc = "returned" =>
        \A k \in DOMAIN returned :
            Emitting(source)[k].data = "dat" =>
                /\ returned[k][2] = tens_complement(DatValue(Emitting(source)[k]))
                /\ returned[k][2] \in 0..(BASE - 1)

\* C6: every entry of a returned Memory Image has its address in 0..99.
C6_ImageAddressesInRange ==
    asm_pc = "returned" =>
        \A k \in DOMAIN returned : returned[k][1] \in Cells

\* A DAT operand outside -999..999 makes the first loop raise.
DatOutOfRange(lines) ==
    \E i \in DOMAIN lines :
        lines[i].data = "dat" /\ ~(DatValue(lines[i]) \in -999..999)

\* C7: a source that refers to a label it defines nowhere makes start
\* raise, in the fix-up loop unless the first loop raised already, and no
\* Memory Image is returned.
C7_UndefinedLabelRaises ==
    (asm_pc # "new" /\ Referred(source) \ Defined(source) # {})
        => /\ asm_pc = "raised" /\ returned = <<>>
           /\ asm_exc \in {"ValueError", "UnexpectedInput"}
           /\ (~DatOutOfRange(source) => asm_exc = "ValueError")

\* start raised in the fix-up loop, over a reference to b, after the first
\* loop had emitted all three instructions and bound label a.
C7_Witness ==
    /\ asm_pc = "raised" /\ asm_exc = "ValueError"
    /\ <<"b">> \in Referred(source) \ Defined(source)
    /\ <<"a">> \in DOMAIN labels
    /\ Len(memory) = MaxInstructions

\* C8: load of an image holding a pair whose address is outside 0..99
\* raises.
C8_LoadRejectsBadAddress ==
    (/\ call.op = "load"
     /\ \E i \in DOMAIN call.arg : call.arg[i][1] \notin Cells)
        => exc # None

\* The value of the last pair of the image that names the address.
LastValue(program, c) ==
    LET at == {i \in DOMAIN program : program[i][1] = c}
    IN  program[CHOOSE i \in at : \A j \in at : j <= i][2]
Named(program) == {program[i][1] : i \in DOMAIN program}

\* C9: load of an image with every address in 0..99 leaves in each named
\* cell the value of the last pair naming it, every other cell as it was,
\* and the registers, flags, run state and error at their power-on values.
C9_LoadWritesAndResets ==
    [][(call'.op = "load" /\ Named(call'.arg) \subseteq Cells)
        => /\ LET named == Named(call'.arg)
              IN  /\ \A c \in named : mem'[c] = LastValue(call'.arg, c)
                  /\ \A c \in Cells \ named : mem'[c] = mem[c]
           /\ AtPowerOn'
           /\ exc' = None]_vars

\* An image naming address 0 twice was loaded into an ABORTED engine whose
\* cell 99 held a word of an earlier image.
C9_Witness ==
    /\ call.op = "load" /\ call.arg = ImgBad /\ call.before = "abort"
    /\ mem[0] = 950 /\ mem[99] = 902

\* C10: reset returns registers, flags, run state and error to power-on
\* and leaves memory and both adapters as they were; clear zeroes all 100
\* cells and otherwise does what reset does.
C10_ResetAndClear ==
    /\ [][call'.op = "reset"
            => AtPowerOn' /\ UNCHANGED <<mem, inp, out>> /\ exc' = None]_vars
    /\ [][call'.op = "clear"
            => /\ AtPowerOn' /\ UNCHANGED <<inp, out>> /\ exc' = None
               /\ \A c \in Cells : mem'[c] = 0]_vars

\* reset was called on an ABORTED engine with a program in memory, an input
\* adapter holding a card and an output adapter holding one.
C10_Witness ==
    /\ call.op = "reset" /\ call.before = "abort"
    /\ mem[0] = 950 /\ inp.cards # <<>> /\ out.cards # <<>>

\* C11: tens_complement and to_signed are inverses of each other: to_signed
\* applied to the tens complement of a value in -500..499 returns that
\* value, and tens_complement applied to to_signed of a value in 0..999
\* returns that value.
C11_ConversionsAreInverses ==
    /\ (/\ conv.fn = "to_signed" /\ conv.prev_fn = "tens_complement"
         /\ conv.prev_arg \in (-(BASE \div 2))..(BASE \div 2 - 1))
            => conv.result = conv.prev_arg
    /\ (/\ conv.fn = "tens_complement" /\ conv.prev_fn = "to_signed"
         /\ conv.prev_arg \in 0..(BASE - 1))
            => conv.result = conv.prev_arg

\* to_signed has just taken 500, the tens complement of -500, back to -500.
C11_Witness ==
    /\ conv.prev_fn = "tens_complement" /\ conv.prev_arg = -(BASE \div 2)
    /\ conv.fn = "to_signed" /\ conv.arg = BASE \div 2
    /\ conv.result = -(BASE \div 2)

\* The location counter when the walk reaches tree i of the source: 0 at
\* the start, the operand of the last ORG since, one more for every word.
RECURSIVE LocationAt(_, _)
LocationAt(lines, i) ==
    IF i = 1 THEN 0
    ELSE LET t == lines[i - 1]
         IN  IF t.data = "org" THEN t.child.value
             ELSE IF t.data = "labeldef" THEN LocationAt(lines, i - 1)
             ELSE LocationAt(lines, i - 1) + 1

\* The place in the Memory Image of the word tree i emits.
Slot(lines, i) ==
    Cardinality({j \in 1..i : lines[j].data \notin {"labeldef", "org"}})

\* The instructions whose operand is a label, and the definition a
\* reference names: the one of its label, the last one if there are more.
References(lines) ==
    {i \in DOMAIN lines : /\ lines[i].data # "labeldef"
                          /\ lines[i].child.type = "LABEL"}
DefinitionsOf(lines, i) ==
    {d \in DefinedAt(lines) :
        lower(lines[d].child.text) = lower(lines[i].child.text)}
DefinitionOf(lines, i) ==
    CHOOSE d \in DefinitionsOf(lines, i) :
        \A e \in DefinitionsOf(lines, i) : e <= d

\* C12: in a source that assembled, every instruction that refers to a
\* label is emitted as its opcode plus the location counter at the
\* definition of that label, whether the definition comes before or after
\* the reference and whatever case either is written in.
C12_LabelResolvesToDefinition ==
    asm_pc = "returned" =>
        \A i \in References(source) :
            /\ DefinitionsOf(source, i) # {}
            /\ returned[Slot(source, i)] =
                  <<LocationAt(source, i),
                    opcode_base(source[i].data)
                        + LocationAt(source, DefinitionOf(source, i))>>

\* A source assembled in which a label defined away from address 0 is
\* referred to before and after its definition, in different case.
C12_Witness ==
    /\ asm_pc = "returned"
    /\ \E i, j \in References(source) :
          /\ source[i].child.text # source[j].child.text
          /\ DefinitionsOf(source, i) = DefinitionsOf(source, j)
          /\ \E d \in DefinitionsOf(source, i) :
                i < d /\ d < j /\ LocationAt(source, d) > 0

\* The instance as the first loop has left it when it reaches tree i.
Reaching(lines, i) == first_loop(Assembler_init, SubSeq(lines, 1, i - 1))

\* The tree after tree i that is no label definition, or 0 if none is.
NextOperation(lines, i) ==
    LET later == {j \in DOMAIN lines : j > i /\ lines[j].data # "labeldef"}
    IN  IF later = {} THEN 0
        ELSE CHOOSE j \in later : \A k \in later : j <= k

\* C13: the turn of the loop that takes an ORG a appends no entry, leaves
\* the entries and the label bindings made so far as they are, and sets the
\* location counter to a; the next word emitted has address a, and in the
\* Memory Image returned the entries emitted before the ORG keep their
\* address and the words among them their value.
C13_OrgOnlyMovesLocation ==
    asm_pc \in {"returned", "raised"} =>
        \A i \in DOMAIN source :
            (source[i].data = "org" /\ Reaching(source, i).exc = None) =>
                LET before == Reaching(source, i)
                    after == match_tree(before, source[i])
                    next == NextOperation(source, i)
                IN  /\ after.exc = None
                    /\ after.memory = before.memory
                    /\ after.labels = before.labels
                    /\ after.location = source[i].child.value
                    /\ asm_pc = "returned" =>
                          /\ \A k \in DOMAIN before.memory :
                                /\ returned[k][1] = before.memory[k].location
                                /\ ~before.memory[k].tuple =>
                                      returned[k][2] = before.memory[k].word
                          /\ (next # 0 /\ source[next].data # "org") =>
                                returned[Slot(source, next)][1]
                                    = source[i].child.value

\* A source assembled in which an ORG away from the location counter came
\* after an emitted word and a bound label and before another word.
C13_Witness ==
    /\ asm_pc = "returned"
    /\ \E i \in DOMAIN source :
          /\ source[i].data = "org"
          /\ Reaching(source, i).memory # <<>>
          /\ DOMAIN Reaching(source, i).labels # {}
          /\ Reaching(source, i).location # source[i].child.value
          /\ NextOperation(source, i) # 0
          /\ returned[Len(returned)][1] = source[i].child.value

\* The scenario has run to its end on two inputs in 0..999.
Ran(lines, signed) ==
    /\ scenario.stage = "ran"
    /\ scenario.source = lines /\ scenario.signed = signed
    /\ scenario.a \in 0..(BASE - 1) /\ scenario.b \in 0..(BASE - 1)

\* C14: the addition program, assembled, loaded into a cleared engine and
\* run on inputs a and b in 0..999 with an unsigned writer, ends HALTED
\* with no error and no exception, and has written exactly (a + b) mod 1000.
C14_AdditionEndToEnd ==
    Ran(SrcAdd, FALSE) =>
        /\ RunState = "halt" /\ error = None /\ exc = None
        /\ out.cards = <<(scenario.a + scenario.b) % BASE>>

\* The addition program has run on 999 and 1 and written 0.
C14_Witness ==
    /\ Ran(SrcAdd, FALSE) /\ scenario.a = 999 /\ scenario.b = 1
    /\ RunState = "halt" /\ out.cards = <<0>>

\* C15: the subtraction program, assembled, loaded into a cleared engine
\* and run on inputs a and b in 0..999 with a signed writer, ends HALTED
\* with no error and no exception, and has written exactly
\* to_signed((a - b) mod 1000).
C15_SubtractionEndToEnd ==
    Ran(SrcSub, TRUE) =>
        /\ RunState = "halt" /\ error = None /\ exc = None
        /\ out.cards = <<to_signed((scenario.a - scenario.b) % BASE)>>

\* The subtraction program has run on 4 and 17 and written -13.
C15_Witness ==
    /\ Ran(SrcSub, TRUE) /\ scenario.a = 4 /\ scenario.b = 17
    /\ RunState = "halt" /\ out.cards = <<-13>>

\* The call op is made in state RUNNING with the program counter at a cell
\* that holds word: its first (or only) cycle fetches and executes word.
Executes(op, word) ==
    /\ RunState = "run" /\ call'.op = op
    /\ PyIndexOk(pc, MEMSIZE) /\ mem[PyIndex(pc, MEMSIZE)] = word

\* The installed input adapter is at its end, or its next value (the tens
\* complement of the next card) is outside 0..999.
AtEndOfInput == inp.installed /\ inp.cards = <<>>
NextInputOutOfRange ==
    /\ inp.installed /\ inp.cards # <<>>
    /\ tens_complement(Head(inp.cards)) \notin 0..(BASE - 1)

\* C16: a single_step or run whose cycle executes INP when the input
\* adapter is at its end, or hands out a value outside 0..999, leaves the
\* engine ABORTED with the matching error message and the accumulator,
\* both flags and every memory cell as they were, and raises nothing; and
\* a run that ends with one of these errors has raised nothing.
C16_FailedInputAborts ==
    /\ [][\A op \in {"single_step", "run"} :
            (Executes(op, 901) /\ (AtEndOfInput \/ NextInputOutOfRange))
                => /\ RunState' = "abort" /\ exc' = None
                   /\ error' = IF AtEndOfInput THEN "End of input file"
                                ELSE "Input out of range"
                   /\ UNCHANGED <<acc, is_zero, is_nonnegative, mem>>]_vars
    /\ [][(/\ RunState = "run" /\ call'.op = "run"
            /\ error' \in {"End of input file", "Input out of range"})
            => RunState' = "abort" /\ exc' = None]_vars

\* run has ended ABORTED on the second turn of a loop back to INP, which
\* was handed 1000 while the accumulator held the 1 read on the first turn.
C16_Witness ==
    /\ call.op = "run" /\ call.before = "run" /\ exc = None
    /\ RunState = "abort" /\ error = "Input out of range"
    /\ cir = <<9, 1>> /\ pc = 1 /\ inp.cards = <<>>
    /\ acc = 1 /\ ~is_zero /\ is_nonnegative

\* C17: in every state the engine reaches, is_zero tells whether the
\* accumulator is 0 and is_nonnegative whether it is below 500.
C17_FlagsAgreeWithAcc ==
    /\ is_zero = (acc = 0)
    /\ is_nonnegative = (acc < BASE \div 2)

\* A cycle has left 500, the most negative value, in the accumulator.
C17_Witness ==
    /\ call.op \in {"single_step", "run"} /\ exc = None
    /\ acc = BASE \div 2 /\ ~is_zero /\ ~is_nonnegative

\* The engine after n calls of single_step, the first of them on m.
RECURSIVE Steps(_, _)
Steps(m, n) == IF n = 0 THEN m ELSE single_step(Steps(m, n - 1))

\* The engine with the exception its last call raised.
MachineNow == [Machine EXCEPT !.exc = exc]

\* C18: a call of run leaves the engine as some number n >= 1 of calls of
\* single_step leave it, where each of the first n - 1 returned in state
\* RUNNING and the n-th is the first that raised or left RUNNING; if run
\* returns, the state is HALTED or ABORTED; and a run called in a terminal
\* state changes nothing and raises nothing.
C18_RunIsRepeatedSingleStep ==
    /\ [][call'.op = "run" =>
            /\ \E n \in 1..(MaxRunSteps + 1) :
                  /\ MachineNow' = Steps(Machine, n)
                  /\ \A k \in 1..(n - 1) :
                        /\ Steps(Machine, k).exc = None
                        /\ run_state(Steps(Machine, k)) = "run"
                  /\ \/ Steps(Machine, n).exc # None
                     \/ run_state(Steps(Machine, n)) # "run"
            /\ exc' = None => RunState' \in {"halt", "abort"}]_vars
    /\ [][(call'.op = "run" /\ RunState # "run")
            => MachineNow' = Machine]_vars

\* run was called in state RUNNING at address 0 of the five-word loop and
\* has returned ABORTED from the second INP, two cards and a cell stored.
C18_Witness ==
    /\ call.op = "run" /\ call.before = "run" /\ exc = None
    /\ RunState = "abort" /\ error = "Input out of range"
    /\ mem[0] = 901 /\ mem[1] = 399 /\ mem[99] = 1
    /\ pc = 1 /\ inp.cards = <<>>

\* C19: while every memory cell holds a word in 0..999 and no call has
\* raised, the program counter is a memory address, one of 0..99.
C19_PcInRange ==
    (exc = None /\ \A c \in Cells : mem[c] \in 0..(BASE - 1))
        => pc \in Cells

\* The word at the program counter, and what decode makes of it.
WordAtPc == mem[PyIndex(pc, MEMSIZE)]
Undefined(word) ==
    \/ word \div MEMSIZE = 4
    \/ word \div MEMSIZE = 9 /\ word % MEMSIZE \notin {1, 2}

\* C20: a single_step or run whose cycle executes a word with opcode 4, or
\* with opcode 9 and an address other than 1 and 2, leaves the engine
\* ABORTED with the bad-instruction error and the accumulator, both flags,
\* every memory cell and the output as they were, and raises nothing; one
\* whose cycle executes a word with opcode 0, whatever its address, leaves
\* the engine HALTED with no error.
C20_BadInstructionAbortsHltHalts ==
    [][\A op \in {"single_step", "run"} :
        /\ (Executes(op, WordAtPc) /\ Undefined(WordAtPc))
              => /\ RunState' = "abort" /\ error' = "Bad instruction"
                 /\ exc' = None
                 /\ UNCHANGED <<acc, is_zero, is_nonnegative, mem, out>>
        /\ (Executes(op, WordAtPc) /\ WordAtPc \div MEMSIZE = 0)
              => /\ RunState' = "halt" /\ error' = None
                 /\ exc' = None]_vars

\* A single_step has executed the word 400 at address 3 with 999 in the
\* accumulator and a card in the output, and left the engine ABORTED.
C20_Witness ==
    /\ call.op = "single_step" /\ call.before = "run" /\ exc = None
    /\ RunState = "abort" /\ error = "Bad instruction"
    /\ cir = <<4, 0>> /\ pc = 4 /\ mem[3] = 400
    /\ acc = BASE - 1 /\ out.cards # <<>>

\* C21: a single_step whose cycle executes STA a leaves the accumulator
\* as it was and memory as it was but for cell a, which holds the
\* accumulator; every other single_step, whatever it executes and whether
\* or not it raises, leaves all 100 cells as they were; and, the images
\* loaded holding words in 0..999, every cell holds a word in 0..999 in
\* every reachable state.
C21_OnlyStaWritesMemory ==
    /\ [][call'.op = "single_step" =>
            IF Executes("single_step", WordAtPc) /\ WordAtPc \div MEMSIZE = 3
            THEN /\ mem' = [mem EXCEPT ![WordAtPc % MEMSIZE] = acc]
                 /\ acc' = acc /\ exc' = None
            ELSE mem' = mem]_vars
    /\ [](\A c \in Cells : mem[c] \in 0..(BASE - 1))

\* A single_step has executed STA 99 with 999 in the accumulator: cell 99
\* holds 999 and the program around it is as loaded.
C21_Witness ==
    /\ call.op = "single_step" /\ call.before = "run" /\ exc = None
    /\ cir = <<3, 99>> /\ acc = BASE - 1 /\ mem[99] = BASE - 1
    /\ mem[0] = 901 /\ mem[1] = 399 /\ mem[2] = 599

\* C22: a single_step whose cycle fetches from address p a word with
\* address field a leaves the program counter at a if the opcode is 6
\* (BRA), at a if it is 7 (BRZ) and the accumulator was 0, at a if it is 8
\* (BRP) and the accumulator was below 500, and at p + 1 in every other
\* case; and a branch leaves the accumulator, both flags and memory as they
\* were and raises nothing.
C22_BranchSemantics ==
    [][Executes("single_step", WordAtPc) =>
        LET op == WordAtPc \div MEMSIZE
            a == WordAtPc % MEMSIZE
        IN  /\ pc' = CASE op = 6 -> a
                        [] op = 7 -> IF acc = 0 THEN a ELSE pc + 1
                        [] op = 8 -> IF acc < BASE \div 2 THEN a ELSE pc + 1
                        [] OTHER -> pc + 1
            /\ op \in {6, 7, 8} =>
                  /\ UNCHANGED <<acc, is_zero, is_nonnegative, mem>>
                  /\ exc' = None]_vars

\* A single_step has executed BRP 0 at address 2 with 1 in the accumulator
\* and taken the branch back to address 0.
C22_Witness ==
    /\ call.op = "single_step" /\ call.before = "run" /\ exc = None
    /\ cir = <<8, 0>> /\ mar = 0 /\ mem[2] = 800
    /\ acc = 1 /\ pc = 0 /\ RunState = "run"

\* The mnemonic of the assembler for an instruction with an operand, in
\* the capitals disassemble writes.
Mnemonic(data) ==
    CASE data = "add" -> "ADD" [] data = "sub" -> "SUB"
      [] data = "sta" -> "STA" [] data = "lda" -> "LDA"
      [] data = "bra" -> "BRA" [] data = "brz" -> "BRZ"
      [] data = "brp" -> "BRP"

\* C23: the word the assembler emits for a mnemonic with an operand and an
\* address in 0..99, decoded and disassembled, reads as that mnemonic
\* followed by that address; every word with opcode 0 reads as HLT, the
\* pair (9, 1) as INP and the pair (9, 2) as OUT.
C23_DisassemblyAgrees ==
    listing.stage = "text" =>
        /\ listing.data \in WithOperand =>
              listing.text = Text(Mnemonic(listing.data), <<listing.addr>>)
        /\ cir[1] = 0 => listing.text = Text("HLT", <<>>)
        /\ cir = <<9, 1>> => listing.text = Text("INP", <<>>)
        /\ cir = <<9, 2>> => listing.text = Text("OUT", <<>>)

====
